---- MODULE Spec2Model ----
(***************************************************************************)
(* A state-machine model of libdnf/module/module_sack.cpp: the module      *)
(* registry (ModuleSack::add, add_modules_without_static_context), the     *)
(* considered-set cache, the tiered goal solver (module_solve), the        *)
(* active-module selector (resolve_active_module_items) and the modular    *)
(* filter (module_filtering).                                              *)
(*                                                                         *)
(* The metadata parser, the libsolv solver, the persisted module state and *)
(* the package query facility are collaborators outside the file: the      *)
(* parser's output is drawn from a fixed set of documents, the solver's    *)
(* verdicts are nondeterministic, the persisted state is changed by an     *)
(* environment action.                                                     *)
(***************************************************************************)
EXTENDS Integers, Sequences, FiniteSets, TLC

\* Bound on the number of module records the registry may hold.
MaxModules == 3

RepoIds == {"r1", "r2"}

\* The calls of add the model makes: a document and the repository it is loaded for
AddInputs ==
    { <<"docA", "r1">>, <<"docB", "r1">>, <<"docC", "r2">>, <<"docBad", "r2">> }

\* The calls of add made to exercise the static-context resolver
RegistryInputs ==
    { <<"docS", "r1">>, <<"docB", "r1">>, <<"docE", "r2">>, <<"docN", "r2">>,
      <<"docBad", "r2">> }

ModuleNames == {"app", "db"}

\* ---------------------------------------------------------------------
\* Metadata documents (the input of ModuleSack::add).  ParseDocument is
\* what ModuleMetadata::add_metadata_from_string / get_all_module_items
\* deliver for each of them: ok = FALSE stands for a document the parser
\* rejects with ModuleResolveError.
\* ---------------------------------------------------------------------
DocumentIds == {"docA", "docB", "docC", "docS", "docE", "docN", "docBad"}

ParseDocument(d) ==
    CASE d = "docA" ->
           [ok |-> TRUE,
            static |-> << [name |-> "app", stream |-> "1.0", context |-> "c1", deps |-> ""],
                          [name |-> "app", stream |-> "2.0", context |-> "c2", deps |-> ""] >>,
            dynamic |-> << >>,
            defaults |-> {<<"app", "2.0">>}]
      [] d = "docB" ->
           [ok |-> TRUE,
            static |-> << >>,
            dynamic |-> << [name |-> "app", stream |-> "1.0", context |-> "d1", deps |-> ""] >>,
            defaults |-> {}]
      [] d = "docC" ->
           [ok |-> TRUE,
            static |-> << [name |-> "db", stream |-> "1.0", context |-> "c3", deps |-> "app:[1.0]"] >>,
            dynamic |-> << >>,
            defaults |-> {<<"db", "1.0">>}]
      [] d = "docS" ->
           [ok |-> TRUE,
            static |-> << [name |-> "app", stream |-> "1.0", context |-> "c1", deps |-> ""] >>,
            dynamic |-> << >>,
            defaults |-> {}]
      [] d = "docE" ->
           [ok |-> TRUE,
            static |-> << >>,
            dynamic |-> << [name |-> "app", stream |-> "1.0", context |-> "d2", deps |-> "db:[1.0]"] >>,
            defaults |-> {}]
      [] d = "docN" ->
           [ok |-> TRUE,
            static |-> << >>,
            dynamic |-> << [name |-> "app", stream |-> "1.0", context |-> "d3", deps |-> "NoRequires"] >>,
            defaults |-> {}]
      [] OTHER ->
           [ok |-> FALSE, static |-> << >>, dynamic |-> << >>, defaults |-> {}]

\* ---------------------------------------------------------------------
\* Persisted module state (libdnf::system::State), keyed by module name.
\* found = FALSE: get_module_state throws StateNotFoundError.
\* ---------------------------------------------------------------------
StateNotFound == [found |-> FALSE, state |-> "Available", stream |-> ""]

ModuleStateEntries ==
    { StateNotFound,
      [found |-> TRUE, state |-> "Available", stream |-> ""],
      [found |-> TRUE, state |-> "Enabled", stream |-> "1.0"],
      [found |-> TRUE, state |-> "Disabled", stream |-> ""] }

\* The writes of the persisted state the model makes
StateInputs ==
    { <<"app", e>> : e \in ModuleStateEntries } \cup
    { <<"db", StateNotFound>>, <<"db", [found |-> TRUE, state |-> "Enabled", stream |-> "1.0"]>> }

VARIABLES
    modules,                        \* Impl::modules (records with a solvable)
    modules_without_static_context, \* Impl::modules_without_static_context
    repositories,                   \* Impl::repositories: sequence of repo ids, index = pool repo id
    nsolvables,                     \* pool->nsolvables
    metadata_defaults,              \* default streams held by Impl::module_metadata
    module_defaults,                \* Impl::module_defaults
    active_modules,                 \* Impl::active_modules (its keys)
    active_modules_resolved,        \* ModuleSack::active_modules_resolved
    excludes,                       \* Impl::excludes (unique_ptr<SolvMap>)
    considered,                     \* pool->considered
    considered_uptodate,            \* Impl::considered_uptodate
    provides_ready,                 \* Impl::provides_ready
    system_state,                   \* persisted module state per module name
    pc,                             \* position inside resolve_active_module_items / module_solve
    caller,                         \* who called resolve_active_module_items
    module_items_to_solve,          \* the candidate list handed to module_solve
    attempts,                       \* the goal.resolve() calls of the running module_solve
    goal_installs,                  \* list_installs() of the goal given to set_active_modules
    result,                         \* the pair returned by module_solve
    returned,                       \* what get_active_modules returned, when it was the last call
    last_error,                     \* the exception add raised, when it was the last call
    active_at_entry,                \* active_modules when module_solve was entered
    added_since_resolve,            \* an add delivered records after the last resolution
    module_excludes,                \* the exclude queries module_filtering handed to the
                                    \* package sack, when it was the last call
    to_string_call,                 \* the last call of module_state_to_string
    from_string_call,               \* the last call of module_state_from_string
    whatprovides,                   \* the provides index of the pool (pool->whatprovides)
    excluded_conflicting            \* the ids lines 462-464 added to Impl::excludes

vars == << modules, modules_without_static_context, repositories, nsolvables,
           metadata_defaults, module_defaults, active_modules, active_modules_resolved,
           excludes, considered, considered_uptodate, provides_ready, system_state,
           pc, caller, module_items_to_solve, attempts, goal_installs, result, returned,
           last_error, active_at_entry, added_since_resolve, module_excludes,
           to_string_call, from_string_call, whatprovides, excluded_conflicting >>

\* the calls of the Module State text conversions
ConversionVars == << to_string_call, from_string_call >>

\* ---------------------------------------------------------------------
\* Helpers on module records
\* ---------------------------------------------------------------------
SeqToSet(s) == { s[i] : i \in 1..Len(s) }

get_name_stream(m) == m.name \o ":" \o m.stream

\* the context the solvable is named after: the computed static context when
\* one was assigned, else the context of the metadata
get_name_stream_staticcontext(m) ==
    get_name_stream(m) \o ":" \o
        (IF m.computed_static_context # "" THEN m.computed_static_context ELSE m.context)

NoError == [kind |-> "none", repo |-> ""]

NotReturned == [valid |-> FALSE, modules |-> {}]

NoResult == [problems |-> << >>, severity |-> "NONE"]

NullMap == [alloc |-> FALSE, size |-> 0, bits |-> {}]

NoExcludes == [queries |-> FALSE, by_nevra |-> {}, by_provides |-> {}, by_names |-> {}]

\* pool->whatprovides before pool_createwhatprovides ran
NoIndex == [built |-> FALSE, considered |-> NullMap, builds |-> "never"]

NoToStringCall == [called |-> FALSE, state |-> "none", text |-> ""]

NoFromStringCall == [called |-> FALSE, text |-> "", raised |-> "none", state |-> "none"]

\* ---------------------------------------------------------------------
\* State after construction (ModuleSack::ModuleSack, Impl::Impl)
\* ---------------------------------------------------------------------
Init ==
    /\ modules = << >>
    /\ modules_without_static_context = << >>
    /\ repositories = << >>
    /\ nsolvables = 2
    /\ metadata_defaults = [n \in ModuleNames |-> ""]
    /\ module_defaults = [n \in ModuleNames |-> ""]
    /\ active_modules = {}
    /\ active_modules_resolved = FALSE
    /\ excludes = NullMap
    /\ considered = NullMap
    /\ considered_uptodate = FALSE
    /\ provides_ready = FALSE
    /\ system_state \in [ModuleNames -> {StateNotFound}]
    /\ pc = "idle"
    /\ caller = "none"
    /\ module_items_to_solve = << >>
    /\ attempts = << >>
    /\ goal_installs = {}
    /\ result = NoResult
    /\ returned = NotReturned
    /\ last_error = NoError
    /\ active_at_entry = {}
    /\ added_since_resolve = FALSE
    /\ module_excludes = NoExcludes
    /\ to_string_call = NoToStringCall
    /\ from_string_call = NoFromStringCall
    /\ whatprovides = NoIndex
    /\ excluded_conflicting = {}

\* ---------------------------------------------------------------------
\* ModuleSack::add
\* ---------------------------------------------------------------------
\* lines 92-99: the repository is created only when repo_id is not in the table
RepositoriesAfterAdd(repos, r) ==
    IF r \in SeqToSet(repos) THEN repos ELSE Append(repos, r)

\* ModuleItem as get_all_module_items creates it: no solvable yet (id 0), no
\* computed static context
NewModuleItem(item, static) ==
    [name |-> item.name, stream |-> item.stream, context |-> item.context,
     deps |-> item.deps, static |-> static, computed_static_context |-> "", id |-> 0]

\* ModuleItem::create_solvable_and_dependencies: the item gets the next solvable of the pool
create_solvable_and_dependencies(m, n) == [m EXCEPT !.id = n]

\* lines 102-106: every static-context item gets a solvable and is appended to modules
RECURSIVE StoreStatic(_, _, _, _)
StoreStatic(mods, items, r, n) ==
    IF items = << >> THEN mods
    ELSE StoreStatic(Append(mods, create_solvable_and_dependencies(NewModuleItem(Head(items), TRUE), n)),
                     Tail(items), r, n + 1)

\* lines 108-111: items without static context wait in modules_without_static_context
RECURSIVE StorePending(_, _, _)
StorePending(pend, items, r) ==
    IF items = << >> THEN pend
    ELSE StorePending(Append(pend, NewModuleItem(Head(items), FALSE)), Tail(items), r)

\* line 86: the document's defaults are merged into Impl::module_metadata
MergeDefaults(defs, new) ==
    [n \in ModuleNames |->
        IF \E p \in new : p[1] = n THEN (CHOOSE p \in new : p[1] = n)[2] ELSE defs[n]]

SolveVars == << active_modules, active_modules_resolved, excludes, considered,
                considered_uptodate, provides_ready, pc, caller, module_items_to_solve,
                attempts, goal_installs, result, active_at_entry, module_defaults,
                whatprovides, excluded_conflicting >>

\* AddRejected with the repository created before the document is parsed
AddRejected_RepoFirst(d, r) ==
    /\ UNCHANGED ConversionVars
    /\ pc = "idle"
    /\ ~ParseDocument(d).ok
    /\ last_error' = [kind |-> "ModuleResolveError", repo |-> r]
    /\ returned' = NotReturned
    /\ repositories' = RepositoriesAfterAdd(repositories, r)
    /\ module_excludes' = NoExcludes
    /\ UNCHANGED << modules, modules_without_static_context, nsolvables,
                    metadata_defaults, system_state, added_since_resolve >>
    /\ UNCHANGED SolveVars

\* lines 82-90: the parser rejects the document; the error names the repository
AddRejected(d, r) ==
    /\ UNCHANGED ConversionVars
    /\ pc = "idle"
    /\ ~ParseDocument(d).ok
    /\ last_error' = [kind |-> "ModuleResolveError", repo |-> r]
    /\ returned' = NotReturned
    /\ module_excludes' = NoExcludes
    /\ UNCHANGED << modules, modules_without_static_context, repositories, nsolvables,
                    metadata_defaults, system_state, added_since_resolve >>
    /\ UNCHANGED SolveVars

\* The registry: the module records, the pending records, the repository table
Registry ==
    [modules |-> modules, pending |-> modules_without_static_context,
     repositories |-> repositories, nsolvables |-> nsolvables, defaults |-> metadata_defaults]

\* lines 81-111 without an exception: the registry after add(d, r)
RegistryAfterAdd(reg, d, r) ==
    LET parsed == ParseDocument(d) IN
    [modules |-> StoreStatic(reg.modules, parsed.static, r, reg.nsolvables),
     pending |-> StorePending(reg.pending, parsed.dynamic, r),
     repositories |-> RepositoriesAfterAdd(reg.repositories, r),
     nsolvables |-> reg.nsolvables + Len(parsed.static),
     defaults |-> MergeDefaults(reg.defaults, parsed.defaults)]

AddAccepted(d, r) ==
    LET parsed == ParseDocument(d)
        after == RegistryAfterAdd(Registry, d, r)
    IN
    /\ UNCHANGED ConversionVars
    /\ pc = "idle"
    /\ parsed.ok
    /\ Len(modules) + Len(modules_without_static_context)
         + Len(parsed.static) + Len(parsed.dynamic) <= MaxModules
    /\ metadata_defaults' = after.defaults
    /\ repositories' = after.repositories
    /\ modules' = after.modules
    /\ nsolvables' = after.nsolvables
    /\ modules_without_static_context' = after.pending
    /\ last_error' = NoError
    /\ returned' = NotReturned
    /\ added_since_resolve' =
           (added_since_resolve \/ Len(parsed.static) + Len(parsed.dynamic) > 0)
    /\ module_excludes' = NoExcludes
    /\ UNCHANGED system_state
    /\ UNCHANGED SolveVars

Add(d, r) == AddRejected(d, r) \/ AddAccepted(d, r)

\* ---------------------------------------------------------------------
\* ModuleSack::Impl::add_modules_without_static_context
\* ---------------------------------------------------------------------
\* lines 121-125 and 133-137: the first module of mods with the name:stream and
\* the dependency string of m, or 0 when static_context_map has no such entry
StaticContextMatch(mods, m) ==
    LET hits == { i \in 1..Len(mods) :
                    /\ get_name_stream(mods[i]) = get_name_stream(m)
                    /\ mods[i].deps = m.deps }
    IN IF hits = {} THEN 0 ELSE CHOOSE i \in hits : \A j \in hits : i <= j

\* lines 131-151: the static context computed for one dynamic-context item
ComputedStaticContext(mods, m) ==
    LET i == StaticContextMatch(mods, m) IN
    IF i # 0 THEN mods[i].context
    ELSE IF m.deps = "" THEN "NoRequires" ELSE m.deps

\* lines 130-152: static_context_map is built once, from the modules present
\* before the loop (base); acc collects the modules
RECURSIVE ResolvePending(_, _, _, _)
ResolvePending(base, acc, pend, n) ==
    IF pend = << >> THEN acc
    ELSE LET m == [Head(pend) EXCEPT
                      !.computed_static_context = ComputedStaticContext(base, Head(pend))]
         IN ResolvePending(base, Append(acc, create_solvable_and_dependencies(m, n)),
                           Tail(pend), n + 1)

\* lines 115-154: what Impl::modules holds afterwards
add_modules_without_static_context(mods, pend, n) ==
    IF pend = << >> THEN mods ELSE ResolvePending(mods, mods, pend, n)

\* PendingAfterResolve without the clear()
PendingAfterResolve_Kept(pend) == pend

\* line 153
PendingAfterResolve(pend) == << >>

\* Impl::get_modules runs add_modules_without_static_context before it hands
\* out Impl::modules
ImplGetModules == add_modules_without_static_context(modules, modules_without_static_context, nsolvables)

ImplGetModulesEffect ==
    /\ modules' = ImplGetModules
    /\ modules_without_static_context' = PendingAfterResolve(modules_without_static_context)
    /\ nsolvables' = nsolvables + Len(modules_without_static_context)

\* ModuleSack::get_modules (lines 60-62)
GetModules ==
    /\ UNCHANGED ConversionVars
    /\ pc = "idle"
    /\ ImplGetModulesEffect
    /\ returned' = NotReturned
    /\ last_error' = NoError
    /\ module_excludes' = NoExcludes
    /\ UNCHANGED << repositories, metadata_defaults, system_state, added_since_resolve >>
    /\ UNCHANGED SolveVars

\* The persisted module state is written by collaborators outside the sack
SetModuleState(n, e) ==
    /\ UNCHANGED ConversionVars
    /\ pc = "idle"
    /\ system_state[n] # e
    /\ system_state' = [system_state EXCEPT ![n] = e]
    /\ returned' = NotReturned
    /\ last_error' = NoError
    /\ module_excludes' = NoExcludes
    /\ UNCHANGED << modules, modules_without_static_context, repositories, nsolvables,
                    metadata_defaults, added_since_resolve >>
    /\ UNCHANGED SolveVars

\* ---------------------------------------------------------------------
\* ModuleSack::resolve_active_module_items: the active-module selector
\* ---------------------------------------------------------------------
\* The number of bits a libsolv Map created for n solvables holds (whole bytes)
MapCapacity(n) == 8 * ((n + 7) \div 8)

\* lines 492-497: state and enabled_stream after the try block; when the state
\* is not found enabled_stream keeps the value read for an earlier module
ReadModuleState(sys, name, prev_stream) ==
    IF sys[name].found
    THEN [state |-> sys[name].state, enabled_stream |-> sys[name].stream]
    ELSE [state |-> "Available", enabled_stream |-> prev_stream]

\* lines 167-174 ("" is EMPTY_RESULT)
get_default_stream(defs, name) == defs[name]

\* ModuleVerdict comparing enabled_stream whatever the state is
ModuleVerdict_AnyState(m, st, defs) ==
    IF st.state = "Disabled" THEN "exclude"
    ELSE IF st.enabled_stream = m.stream THEN "candidate"
    ELSE IF get_default_stream(defs, m.name) = m.stream THEN "default_candidate"
    ELSE "ignore"

\* lines 498-504: what the selector does with one module
ModuleVerdict(m, st, defs) ==
    IF st.state = "Disabled" THEN "exclude"
    ELSE IF st.state = "Enabled" /\ st.enabled_stream = m.stream THEN "candidate"
    ELSE IF get_default_stream(defs, m.name) = m.stream THEN "default_candidate"
    ELSE "ignore"

\* lines 490-505: the loop over get_modules(); acc carries the candidate list,
\* the excluded ids, the enabled_stream local and whether get_default_stream ran
RECURSIVE SelectModules(_, _, _, _)
SelectModules(mods, sys, defs, acc) ==
    IF mods = << >> THEN acc
    ELSE LET m == Head(mods)
             st == ReadModuleState(sys, m.name, acc.enabled_stream)
             v == ModuleVerdict(m, st, defs)
         IN SelectModules(Tail(mods), sys, defs,
              [items |-> IF v \in {"candidate", "default_candidate"}
                         THEN Append(acc.items, m.id) ELSE acc.items,
               excl |-> IF v = "exclude" THEN acc.excl \cup {m.id} ELSE acc.excl,
               enabled_stream |-> st.enabled_stream,
               defaults_read |-> acc.defaults_read \/ v \in {"default_candidate", "ignore"}])

Selection(mods) ==
    SelectModules(mods, system_state, metadata_defaults,
                  [items |-> << >>, excl |-> {}, enabled_stream |-> "", defaults_read |-> FALSE])

\* lines 483-507, up to the call of module_solve
ResolveStart(who) ==
    LET sel == Selection(ImplGetModules) IN
    /\ UNCHANGED ConversionVars
    /\ pc = "idle"
    /\ ImplGetModulesEffect
    /\ excludes' = [alloc |-> TRUE, size |-> MapCapacity(nsolvables), bits |-> sel.excl]
    /\ module_items_to_solve' = sel.items
    /\ module_defaults' = IF sel.defaults_read THEN metadata_defaults ELSE module_defaults
    /\ pc' = "module_solve"
    /\ caller' = who
    /\ attempts' = << >>
    /\ goal_installs' = {}
    /\ result' = NoResult
    /\ active_at_entry' = active_modules
    /\ added_since_resolve' = FALSE
    /\ excluded_conflicting' = {}
    /\ UNCHANGED whatprovides
    /\ UNCHANGED << repositories, metadata_defaults, active_modules, active_modules_resolved,
                    considered, considered_uptodate, provides_ready, system_state >>
    /\ module_excludes' = NoExcludes
    /\ returned' = NotReturned
    /\ last_error' = NoError

ResolveActiveModuleItems ==
    /\ ResolveStart("resolve")

\* ---------------------------------------------------------------------
\* ModuleSack::get_active_modules
\* ---------------------------------------------------------------------
\* NeedsResolution ignoring the flag
NeedsResolution_Always(resolved) == TRUE

\* line 70: the resolution is run unless active_modules_resolved is set
NeedsResolution(resolved) == ~resolved

\* lines 67-69: no modules, nothing is resolved
GetActiveModulesEmpty ==
    /\ UNCHANGED ConversionVars
    /\ pc = "idle"
    /\ ImplGetModules = << >>
    /\ ImplGetModulesEffect
    /\ returned' = [valid |-> TRUE, modules |-> {}]
    /\ last_error' = NoError
    /\ module_excludes' = NoExcludes
    /\ UNCHANGED << repositories, metadata_defaults, system_state, added_since_resolve >>
    /\ UNCHANGED SolveVars

\* lines 70-76 with active_modules_resolved set: the map's values are returned
GetActiveModulesCached ==
    /\ UNCHANGED ConversionVars
    /\ pc = "idle"
    /\ ImplGetModules # << >>
    /\ ~NeedsResolution(active_modules_resolved)
    /\ ImplGetModulesEffect
    /\ returned' = [valid |-> TRUE, modules |-> active_modules]
    /\ last_error' = NoError
    /\ module_excludes' = NoExcludes
    /\ UNCHANGED << repositories, metadata_defaults, system_state, added_since_resolve >>
    /\ UNCHANGED SolveVars

\* lines 70-72 with active_modules_resolved clear: the resolution is run
GetActiveModulesResolve ==
    /\ ImplGetModules # << >>
    /\ NeedsResolution(active_modules_resolved)
    /\ ResolveStart("get")

GetActiveModules ==
    GetActiveModulesEmpty \/ GetActiveModulesCached \/ GetActiveModulesResolve

\* ---------------------------------------------------------------------
\* The considered-set cache
\* ---------------------------------------------------------------------
\* recompute_considered_in_pool without the early return of lines 349-351
recompute_considered_in_pool_Always(cons, uptodate, excl, n) ==
    LET size == IF cons.alloc /\ cons.size > MapCapacity(n)
                THEN cons.size ELSE MapCapacity(n)
        all == 0 .. (size - 1)
    IN [alloc |-> TRUE, size |-> size,
        bits |-> IF excl.alloc THEN all \ excl.bits ELSE all]

\* lines 348-369: pool->considered after recompute_considered_in_pool
recompute_considered_in_pool(cons, uptodate, excl, n) ==
    IF uptodate THEN cons
    ELSE LET size == IF cons.alloc /\ cons.size > MapCapacity(n)
                     THEN cons.size ELSE MapCapacity(n)
             all == 0 .. (size - 1)
         IN [alloc |-> TRUE, size |-> size,
             bits |-> IF excl.alloc THEN all \ excl.bits ELSE all]

\* The solvables the solver may select: all of them when pool->considered is
\* null, else those whose bit is set
ConsideredIds(cons, mods) ==
    { mods[i].id : i \in { j \in 1..Len(mods) : ~cons.alloc \/ mods[j].id \in cons.bits } }

\* pool_createwhatprovides: the index is built from the solvables the pool
\* shows, that is with the pool->considered it finds (cons)
pool_createwhatprovides(index, cons) ==
    [built |-> TRUE, considered |-> cons,
     builds |-> IF index.builds = "never" THEN "once" ELSE "more"]

\* make_provides_ready leaving pool->considered detached
make_provides_ready_Detached(ready, cons, index) ==
    IF ready THEN [provides_ready |-> TRUE, considered |-> cons, whatprovides |-> index]
    ELSE [provides_ready |-> TRUE, considered |-> NullMap,
          whatprovides |-> pool_createwhatprovides(index, NullMap)]

\* lines 329-345: provides_ready, pool->considered and the index after
\* make_provides_ready; pool_createwhatprovides is a C function that returns
\* nothing and raises nothing
make_provides_ready(ready, cons, index) ==
    IF ready THEN [provides_ready |-> TRUE, considered |-> cons, whatprovides |-> index]
    ELSE LET saved == cons                 \* line 335
             detached == NullMap           \* line 336
         IN [provides_ready |-> TRUE,
             considered |-> saved,         \* line 344
             whatprovides |-> pool_createwhatprovides(index, detached)]

\* ExcludesAfterConflicts adding nothing
ExcludesAfterConflicts_Dropped(excl, conflicting) == excl

\* lines 462-464: the Exclude Set after the conflicting modules were added
ExcludesAfterConflicts(excl, conflicting) == [excl EXCEPT !.bits = @ \cup conflicting]

\* ---------------------------------------------------------------------
\* ModuleSack::Impl::module_solve: the tiered goal solver
\* ---------------------------------------------------------------------
ModuleById(id) == modules[CHOOSE i \in 1..Len(modules) : modules[i].id = id]

\* lines 418-422
SolveState(sys, name) == IF sys[name].found THEN sys[name].state ELSE "Available"

\* GoalJobs with the Best and Weak-preferred jobs mandatory whatever the state is
GoalJobs_StateIgnored(tier, items, sys) ==
    { LET m == ModuleById(items[k])
      IN [reldep |-> "module(" \o get_name_stream(m) \o ")",
          strict |-> IF tier = "weak" THEN 0 ELSE 1,
          best |-> IF tier \in {"strict", "best"} THEN 1 ELSE 0]
      : k \in 1..Len(items) }

\* lines 414-433: the jobs of one goal, one per candidate: the reldep
\* module(name:stream) with the (strict, best) weights of add_provide_install
GoalJobs(tier, items, sys) ==
    { LET m == ModuleById(items[k])
          enabled == SolveState(sys, m.name) = "Enabled"
      IN [reldep |-> "module(" \o get_name_stream(m) \o ")",
          strict |-> CASE tier = "strict" -> 1
                       [] tier = "weak" -> 0
                       [] tier = "best" -> IF enabled THEN 1 ELSE 0
                       [] OTHER -> IF enabled THEN 1 ELSE 0,
          best |-> CASE tier = "strict" -> 1
                     [] tier = "weak" -> 0
                     [] tier = "best" -> 1
                     [] OTHER -> 0]
      : k \in 1..Len(items) }

\* What ModuleGoalPrivate::resolve may report as a solution: only considered
\* solvables are installed, at most one of each module name (the solvables of
\* one module name conflict), and every mandatory job is served by a module
\* providing its reldep
SolverMayInstall(jobs, ins, mods, cons) ==
    /\ ins \subseteq ConsideredIds(cons, mods)
    /\ \A i, j \in 1..Len(mods) :
          (mods[i].id \in ins /\ mods[j].id \in ins /\ mods[i].name = mods[j].name) => i = j
    /\ \A j \in jobs : j.strict = 1 =>
          \E i \in 1..Len(mods) :
              /\ mods[i].id \in ins
              /\ "module(" \o get_name_stream(mods[i]) \o ")" = j.reldep

\* What list_conflicting may report: nothing, or the considered solvables of
\* a module name that has several of them
MayConflict(mods, cons) ==
    {{}} \cup
    { c \in { { mods[i].id : i \in { j \in 1..Len(mods) :
                                      mods[j].name = n /\ mods[j].id \in ConsideredIds(cons, mods) } }
              : n \in ModuleNames } : Cardinality(c) >= 2 }

\* lines 372-389: Impl::active_modules after set_active_modules(goal); a goal
\* that resolved without problems holds a transaction
set_active_modules(active, goal, mods) ==
    LET kept == IF ~goal.transaction THEN {} ELSE active
        solvable_names == { get_name_stream_staticcontext(mods[i]) :
                              i \in { j \in 1..Len(mods) : mods[j].id \in goal.installs } }
    IN kept \cup { mods[i].id :
                     i \in { j \in 1..Len(mods) :
                               get_name_stream_staticcontext(mods[j]) \in solvable_names } }

\* lines 441, 451, 458, 470: the severity returned when the attempt has no problem
TierSeverity(tier) ==
    CASE tier = "strict" -> "NO_ERROR"
      [] tier = "best" -> "ERROR_IN_DEFAULTS"
      [] tier = "weakpref" -> "ERROR_IN_LATEST"
      [] OTHER -> "ERROR"

\* NextTier with the Best goal left out
NextTier_SkipsBest(tier) ==
    CASE tier = "strict" -> "weakpref"
      [] OTHER -> "weak"

\* lines 447, 454, 466: the attempt made after a failed one
NextTier(tier) ==
    CASE tier = "strict" -> "best"
      [] tier = "best" -> "weakpref"
      [] OTHER -> "weak"

RegistryVars == << modules, modules_without_static_context, repositories, nsolvables,
                   metadata_defaults >>

OutsideSolve == << system_state, returned, last_error, added_since_resolve,
                   module_excludes, active_modules_resolved, caller, module_items_to_solve,
                   active_at_entry, module_defaults >>

\* ActiveWhenNothingToSolve without the clear()
ActiveWhenNothingToSolve_Kept(active) == active

\* line 396: the map when there is nothing to solve
ActiveWhenNothingToSolve(active) == {}

\* ActiveWhenCannotResolve without the clear()
ActiveWhenCannotResolve_Kept(active) == active

\* line 476: the map when the last goal failed too
ActiveWhenCannotResolve(active) == {}

\* lines 394-401: an empty candidate list ends module_solve at once; otherwise
\* the considered map and the provides index are prepared
ModuleSolveEntry ==
    /\ UNCHANGED ConversionVars
    /\ pc = "module_solve"
    /\ IF module_items_to_solve = << >>
       THEN /\ active_modules' = ActiveWhenNothingToSolve(active_modules)
            /\ result' = [problems |-> << >>, severity |-> "NO_ERROR"]
            /\ pc' = "solved"
            /\ UNCHANGED << considered, considered_uptodate, provides_ready, whatprovides >>
       ELSE LET recomputed == recompute_considered_in_pool(considered, considered_uptodate,
                                                           excludes, nsolvables)
                ready == make_provides_ready(provides_ready, recomputed, whatprovides)
            IN
            /\ considered' = ready.considered
            /\ considered_uptodate' = TRUE
            /\ provides_ready' = ready.provides_ready
            /\ whatprovides' = ready.whatprovides
            /\ pc' = "strict"
            /\ UNCHANGED << active_modules, result >>
    /\ UNCHANGED << excludes, attempts, goal_installs, excluded_conflicting >>
    /\ UNCHANGED RegistryVars
    /\ UNCHANGED OutsideSolve

\* One goal.resolve() call as the log of module_solve keeps it: the goal, its
\* jobs, whether it had no problem, and what list_conflicting gave when it was
\* asked (line 462)
AttemptRecord(tier, ok, conflicting) ==
    [tier |-> tier, ok |-> ok,
     jobs |-> GoalJobs(tier, module_items_to_solve, system_state),
     conflicting |-> conflicting]

\* goal.resolve() returned NO_PROBLEM: set_active_modules and return
AttemptSucceeds(tier, ins) ==
    /\ SolverMayInstall(GoalJobs(tier, module_items_to_solve, system_state), ins,
                        modules, considered)
    /\ attempts' = Append(attempts, AttemptRecord(tier, TRUE, {}))
    /\ goal_installs' = ins
    /\ active_modules' = set_active_modules(active_modules,
                             [transaction |-> TRUE, installs |-> ins], modules)
    /\ result' = [problems |-> << >>, severity |-> TierSeverity(tier)]
    /\ pc' = "solved"
    /\ UNCHANGED << excludes, excluded_conflicting >>

\* goal.resolve() reported problems: the next goal is tried
AttemptFails(tier, conflicting) ==
    /\ attempts' = Append(attempts, AttemptRecord(tier, FALSE, conflicting))
    /\ pc' = NextTier(tier)
    /\ UNCHANGED << goal_installs, active_modules, result >>

SolveFrame ==
    /\ UNCHANGED ConversionVars
    /\ UNCHANGED << considered, considered_uptodate, provides_ready, whatprovides >>
    /\ UNCHANGED RegistryVars
    /\ UNCHANGED OutsideSolve

\* lines 435-442
SolveStrict ==
    /\ pc = "strict"
    /\ \/ \E ins \in SUBSET ConsideredIds(considered, modules) : AttemptSucceeds("strict", ins)
       \/ AttemptFails("strict", {}) /\ UNCHANGED << excludes, excluded_conflicting >>
    /\ SolveFrame

\* lines 447-452
SolveBest ==
    /\ pc = "best"
    /\ \/ \E ins \in SUBSET ConsideredIds(considered, modules) : AttemptSucceeds("best", ins)
       \/ AttemptFails("best", {}) /\ UNCHANGED << excludes, excluded_conflicting >>
    /\ SolveFrame

\* lines 454-464: after a failure the conflicting modules are added to excludes
SolveWeakPreferred ==
    /\ pc = "weakpref"
    /\ \/ \E ins \in SUBSET ConsideredIds(considered, modules) : AttemptSucceeds("weakpref", ins)
       \/ \E conflicting \in MayConflict(modules, considered) :
             /\ AttemptFails("weakpref", conflicting)
             /\ excludes' = ExcludesAfterConflicts(excludes, conflicting)
             /\ excluded_conflicting' = excluded_conflicting \cup conflicting
    /\ SolveFrame

\* lines 466-477: when the last goal fails too the map is cleared
SolveWeak ==
    /\ pc = "weak"
    /\ \/ \E ins \in SUBSET ConsideredIds(considered, modules) : AttemptSucceeds("weak", ins)
       \/ /\ attempts' = Append(attempts, AttemptRecord("weak", FALSE, {}))
          /\ active_modules' = ActiveWhenCannotResolve(active_modules)
          /\ result' = [problems |-> << >>, severity |-> "CANNOT_RESOLVE_MODULES"]
          /\ pc' = "solved"
          /\ UNCHANGED << goal_installs, excludes, excluded_conflicting >>
    /\ SolveFrame

\* lines 508-509, and lines 73-76 when get_active_modules made the call
ResolveReturn ==
    /\ UNCHANGED ConversionVars
    /\ pc = "solved"
    /\ active_modules_resolved' = TRUE
    /\ returned' = IF caller = "get"
                   THEN [valid |-> TRUE, modules |-> active_modules] ELSE NotReturned
    /\ caller' = "none"
    /\ pc' = "idle"
    /\ module_items_to_solve' = << >>
    /\ attempts' = << >>
    /\ goal_installs' = {}
    /\ result' = NoResult
    /\ active_at_entry' = {}
    /\ UNCHANGED << whatprovides, excluded_conflicting >>
    /\ UNCHANGED << active_modules, excludes, considered, considered_uptodate, provides_ready,
                    module_defaults, system_state, last_error, added_since_resolve,
                    module_excludes >>
    /\ UNCHANGED RegistryVars

\* ---------------------------------------------------------------------
\* The modular filter
\* ---------------------------------------------------------------------
\* The packages of the package sack
Packages ==
    { [nevra |-> "app-0:1.0-1.x86_64", name |-> "app", arch |-> "x86_64",
       provides |-> {"app"}, repo |-> "fedora"],
      [nevra |-> "app-0:2.0-1.x86_64", name |-> "app", arch |-> "x86_64",
       provides |-> {"app"}, repo |-> "fedora"],
      [nevra |-> "common-0:1-1.noarch", name |-> "common", arch |-> "noarch",
       provides |-> {"common"}, repo |-> "fedora"],
      [nevra |-> "app-0:3.0-1.x86_64", name |-> "app", arch |-> "x86_64",
       provides |-> {"app"}, repo |-> "updates"],
      [nevra |-> "appng-0:1-1.x86_64", name |-> "appng", arch |-> "x86_64",
       provides |-> {"appng", "app"}, repo |-> "updates"],
      [nevra |-> "app-0:1.0-1.src", name |-> "app", arch |-> "src",
       provides |-> {}, repo |-> "fedora"],
      [nevra |-> "app-0:0.9-1.x86_64", name |-> "app", arch |-> "x86_64",
       provides |-> {"app"}, repo |-> "@System"],
      [nevra |-> "app-0:4.0-1.x86_64", name |-> "app", arch |-> "x86_64",
       provides |-> {"app"}, repo |-> "hotfix"],
      [nevra |-> "db-0:1.0-1.x86_64", name |-> "db", arch |-> "x86_64",
       provides |-> {"db"}, repo |-> "fedora"] }

\* What PackageQuery(base) may hold: all packages, or the packages some
\* exclude of the package sack leaves
Universes ==
    { Packages,
      { p \in Packages : p.nevra # "app-0:1.0-1.x86_64" },
      { p \in Packages : p.repo # "updates" } }

\* The enabled repositories with module_hotfixes set (lines 274-282)
HotfixRepoIds == {"hotfix"}

\* ModuleItem::get_artifacts: the artifacts the metadata lists for the stream
get_artifacts(m) ==
    CASE get_name_stream(m) = "app:1.0" ->
           {"app-0:1.0-1.x86_64", "common-0:1-1.noarch", "app-0:1.0-1.src"}
      [] get_name_stream(m) = "app:2.0" ->
           {"app-0:2.0-1.x86_64", "common-0:1-1.noarch", "not a nevra"}
      [] OTHER -> {"db-0:1.0-1.x86_64"}

\* rpm::Nevra::parse(rpm, {NEVRA}): the parsed forms of an artifact (name and
\* arch are what the filter reads), none when it does not parse
NevraParse(rpm) ==
    CASE rpm = "app-0:1.0-1.x86_64" -> { [name |-> "app", arch |-> "x86_64"] }
      [] rpm = "app-0:2.0-1.x86_64" -> { [name |-> "app", arch |-> "x86_64"] }
      [] rpm = "common-0:1-1.noarch" -> { [name |-> "common", arch |-> "noarch"] }
      [] rpm = "app-0:1.0-1.src" -> { [name |-> "app", arch |-> "src"] }
      [] rpm = "db-0:1.0-1.x86_64" -> { [name |-> "db", arch |-> "x86_64"] }
      [] OTHER -> {}

\* ModuleItem::is_active
is_active(m, active) == m.id \in active

\* lines 188-263
collect_data_for_modular_filtering(mods, active) ==
    LET act == { mods[i] : i \in { j \in 1..Len(mods) : is_active(mods[j], active) } }
        inact == { mods[i] : i \in { j \in 1..Len(mods) : ~is_active(mods[j], active) } }
        parsed == UNION { NevraParse(rpm) : rpm \in UNION { get_artifacts(m) : m \in act } }
    IN [include_NEVRAs |-> UNION { get_artifacts(m) : m \in act },
        exclude_NEVRAs |-> UNION { get_artifacts(m) : m \in inact },
        names |-> { n.name : n \in { x \in parsed : x.arch \notin {"src", "nosrc"} } },
        src_names |-> { n.name : n \in { x \in parsed : x.arch \in {"src", "nosrc"} } },
        reldep_name_list |-> { n.name : n \in { x \in parsed : x.arch \notin {"src", "nosrc"} } }]

\* PackageQuery::filter_nevra, filter_provides, filter_name, filter_arch
filter_nevra(query, nevras) == { p \in query : p.nevra \in nevras }

filter_provides(query, reldeps) == { p \in query : p.provides \cap reldeps # {} }

filter_name(query, names) == { p \in query : p.name \in names }

filter_arch(query, archs) == { p \in query : p.arch \in archs }

\* lines 269-284: the packages modular filtering applies to
TargetPackages(universe) ==
    { p \in universe : p.repo \notin ({"@System", "@commandline"} \cup HotfixRepoIds) }

\* lines 286, 292
IncludeQuery(universe, data) == filter_nevra(universe, data.include_NEVRAs)

\* lines 287, 296-297
ExcludeQuery(target, data, include) == filter_nevra(target, data.exclude_NEVRAs) \ include

\* lines 288, 301-302
ExcludeProvidesQuery(target, data, include) ==
    filter_provides(target, data.reldep_name_list) \ include

\* ExcludeNamesQuery without the final difference(include_query)
ExcludeNamesQuery_NoDifference(target, data, include) ==
    filter_name(target, data.names)
        \cup filter_arch(filter_name(target, data.src_names), {"src", "nosrc"})

\* lines 289-290, 307-316
ExcludeNamesQuery(target, data, include) ==
    (filter_name(target, data.names)
        \cup filter_arch(filter_name(target, data.src_names), {"src", "nosrc"})) \ include

\* lines 265-320: the three queries handed to the package sack
module_filtering(universe, mods, active) ==
    LET data == collect_data_for_modular_filtering(mods, active)
        target == TargetPackages(universe)
        include == IncludeQuery(universe, data)
    IN [queries |-> TRUE,
        by_nevra |-> ExcludeQuery(target, data, include),
        by_provides |-> ExcludeProvidesQuery(target, data, include),
        by_names |-> ExcludeNamesQuery(target, data, include)]

ModuleFiltering(universe) ==
    /\ UNCHANGED ConversionVars
    /\ pc = "idle"
    /\ ImplGetModulesEffect
    /\ module_excludes' = module_filtering(universe, ImplGetModules, active_modules)
    /\ returned' = NotReturned
    /\ last_error' = NoError
    /\ UNCHANGED << repositories, metadata_defaults, system_state, added_since_resolve >>
    /\ UNCHANGED SolveVars

Next ==
    \/ \E u \in Universes : ModuleFiltering(u)
    \/ \E a \in AddInputs : Add(a[1], a[2])
    \/ GetModules
    \/ \E w \in StateInputs : SetModuleState(w[1], w[2])
    \/ ResolveActiveModuleItems
    \/ GetActiveModules
    \/ ModuleSolveEntry
    \/ SolveStrict
    \/ SolveBest
    \/ SolveWeakPreferred
    \/ SolveWeak
    \/ ResolveReturn

Spec == Init /\ [][Next]_vars

\* ---------------------------------------------------------------------
\* The text encoding of ModuleState (module_state_to_string,
\* module_state_from_string)
\* ---------------------------------------------------------------------
\* enum class ModuleState
ModuleStates == { "AVAILABLE", "ENABLED", "DISABLED" }

\* The strings module_state_from_string is called with
TextInputs ==
    { "Available", "Enabled", "Disabled",
      "", " ", "available", "enabled", "disabled", "AVAILABLE", "ENABLED", "DISABLED",
      "Available ", "Enabled ", "Disabled ", " Available", " Enabled", " Disabled",
      "Avail", "Enable", "Disable", "Availables", "Enableds", "Disableds",
      "aVAILABLE", "eNABLED", "dISABLED",
      "Installed", "Default", "Unknown", "NotFound", "0", "1", "2" }

\* lines 517-527
module_state_to_string(state) ==
    CASE state = "AVAILABLE" -> "Available"
      [] state = "ENABLED" -> "Enabled"
      [] state = "DISABLED" -> "Disabled"
      [] OTHER -> ""

\* module_state_from_string giving a state to every string
module_state_from_string_Lenient(state) ==
    IF state = "Enabled" THEN [raised |-> "none", what |-> "", state |-> "ENABLED"]
    ELSE IF state = "Disabled" THEN [raised |-> "none", what |-> "", state |-> "DISABLED"]
    ELSE [raised |-> "none", what |-> "", state |-> "AVAILABLE"]

\* lines 530-540: the state, or the exception InvalidModuleState(state)
module_state_from_string(state) ==
    IF state = "Available" THEN [raised |-> "none", what |-> "", state |-> "AVAILABLE"]
    ELSE IF state = "Enabled" THEN [raised |-> "none", what |-> "", state |-> "ENABLED"]
    ELSE IF state = "Disabled" THEN [raised |-> "none", what |-> "", state |-> "DISABLED"]
    ELSE [raised |-> "InvalidModuleState", what |-> state, state |-> "none"]

\* the fields of the sack, which the conversions do not touch
SackVars == << modules, modules_without_static_context, repositories, nsolvables,
               metadata_defaults, module_defaults, active_modules, active_modules_resolved,
               excludes, considered, considered_uptodate, provides_ready, system_state,
               pc, caller, module_items_to_solve, attempts, goal_installs, result, returned,
               last_error, active_at_entry, added_since_resolve, module_excludes,
               whatprovides, excluded_conflicting >>

ModuleStateToString(s) ==
    /\ to_string_call' = [called |-> TRUE, state |-> s, text |-> module_state_to_string(s)]
    /\ UNCHANGED from_string_call
    /\ UNCHANGED SackVars

ModuleStateFromString(t) ==
    LET r == module_state_from_string(t) IN
    /\ from_string_call' = [called |-> TRUE, text |-> t, raised |-> r.raised, state |-> r.state]
    /\ UNCHANGED to_string_call
    /\ UNCHANGED SackVars

ConversionNext ==
    \/ \E s \in ModuleStates : ModuleStateToString(s)
    \/ \E t \in TextInputs : ModuleStateFromString(t)

SpecConversion == Init /\ [][ConversionNext]_vars

\* The registry alone: ingestion and the static-context resolver
RegistryNext ==
    \/ \E a \in RegistryInputs : Add(a[1], a[2])
    \/ GetModules

SpecRegistry == Init /\ [][RegistryNext]_vars

\* =====================================================================
\* Properties
\* =====================================================================
TierOrder == << "strict", "best", "weakpref", "weak" >>

SeverityOrder == << "NO_ERROR", "ERROR_IN_DEFAULTS", "ERROR_IN_LATEST", "ERROR" >>

Severities ==
    { "NO_ERROR", "ERROR_IN_DEFAULTS", "ERROR_IN_LATEST", "ERROR", "CANNOT_RESOLVE_MODULES" }

TierIndex(p) == CHOOSE i \in 1..4 : TierOrder[i] = p

\* a call of get_active_modules is made in this step: it returns at once, or it
\* enters resolve_active_module_items
GetActiveModulesCalled == pc = "idle" /\ (returned'.valid \/ caller' = "get")

\* the records of mods whose name:stream:context is the name of a solvable in ins
MatchingRecords(mods, ins) ==
    { mods[i].id : i \in { j \in 1..Len(mods) :
        \E k \in 1..Len(mods) :
            /\ mods[k].id \in ins
            /\ get_name_stream_staticcontext(mods[k]) = get_name_stream_staticcontext(mods[j]) } }

\* C1: with a non-empty candidate list the goals are resolved in the order
\* Strict, Best, Weak-preferred, Weak; a goal is resolved only after all earlier
\* ones reported problems, none after the first problem-free one, each at most
\* once; the severity returned is NO_ERROR, ERROR_IN_DEFAULTS, ERROR_IN_LATEST
\* or ERROR according to the goal that had no problem.
C1_TierOrder ==
    /\ Len(attempts) <= 4
    /\ \A i \in 1..Len(attempts) :
          /\ attempts[i].tier = TierOrder[i]
          /\ i < Len(attempts) => ~attempts[i].ok
    /\ pc \in { "strict", "best", "weakpref", "weak" } =>
          /\ Len(attempts) = TierIndex(pc) - 1
          /\ \A i \in 1..Len(attempts) : ~attempts[i].ok
    /\ (pc = "solved" /\ module_items_to_solve # << >>) =>
          /\ attempts # << >>
          /\ attempts[Len(attempts)].ok => result.severity = SeverityOrder[Len(attempts)]
          /\ ~attempts[Len(attempts)].ok => Len(attempts) = 4

C1_Witness ==
    /\ pc = "solved"
    /\ Len(attempts) = 4
    /\ attempts[4].ok
    /\ result.severity = "ERROR"

\* C2: when the latest resolution succeeded at some tier, the Active Module
\* Map holds exactly the records whose name:stream:context matches an item
\* installed by that tier's goal, and nothing of an earlier resolution.
C2_ActiveIsSelection ==
    (pc = "solved" /\ attempts # << >> /\ attempts[Len(attempts)].ok) =>
        active_modules = MatchingRecords(modules, goal_installs)

\* C3: when an add delivered module records after the last resolution, the
\* next get_active_modules runs resolve_active_module_items.
C3_ResolvesAfterAdd ==
    [][ (GetActiveModulesCalled /\ added_since_resolve) =>
            (caller' = "get" /\ pc' = "module_solve") ]_vars

\* C4: once a resolution has run, get_active_modules returns the values of the
\* cached map without resolving any goal, and two such calls in a row return
\* the same modules; with no module record it returns an empty list, runs no
\* resolution and leaves the resolution-has-run flag as it is.
C4_ServedFromCache ==
    /\ [][ (GetActiveModulesCalled /\ active_modules_resolved) =>
              /\ pc' = "idle"
              /\ returned' = [valid |-> TRUE, modules |-> active_modules]
              /\ (returned.valid => returned'.modules = returned.modules)
              /\ UNCHANGED << active_modules, active_modules_resolved, attempts, excludes,
                              considered, result >> ]_vars
    /\ [][ (GetActiveModulesCalled /\ modules = << >> /\ modules_without_static_context = << >>) =>
              /\ pc' = "idle"
              /\ returned' = [valid |-> TRUE, modules |-> {}]
              /\ UNCHANGED << active_modules_resolved, attempts, active_modules >> ]_vars

C4_Witness ==
    /\ pc = "idle"
    /\ active_modules_resolved
    /\ returned.valid
    /\ returned.modules # {}
    /\ ~added_since_resolve

\* C5: when all four goals report problems module_solve returns
\* CANNOT_RESOLVE_MODULES as a value and the Active Module Map is empty,
\* whatever it held before; every outcome of module_solve is a severity value
\* and nothing is raised.
C5_CannotResolve ==
    pc = "solved" =>
        /\ result.severity \in Severities
        /\ result.problems = << >>
        /\ last_error = NoError
        /\ (Len(attempts) = 4 /\ ~attempts[4].ok) =>
              /\ result.severity = "CANNOT_RESOLVE_MODULES"
              /\ active_modules = {}

C5_Witness ==
    /\ pc = "solved"
    /\ Len(attempts) = 4
    /\ ~attempts[4].ok
    /\ active_at_entry # {}
    /\ result.severity = "CANNOT_RESOLVE_MODULES"

\* C6: with an empty candidate list module_solve returns NO_ERROR and no
\* problems, leaves the Active Module Map empty, resolves no goal and leaves the
\* Considered Set, the dirty flag, the provides-ready flag and the Exclude Set
\* unchanged.
C6_NothingToSolve ==
    [][ (pc = "module_solve" /\ module_items_to_solve = << >>) =>
            /\ pc' = "solved"
            /\ result' = [problems |-> << >>, severity |-> "NO_ERROR"]
            /\ active_modules' = {}
            /\ attempts' = << >>
            /\ UNCHANGED << considered, considered_uptodate, provides_ready, excludes >> ]_vars

C6_Witness ==
    /\ pc = "solved"
    /\ module_items_to_solve = << >>
    /\ active_at_entry # {}
    /\ active_modules = {}
    /\ result.severity = "NO_ERROR"

\* C7 as stated: in every state after add returned no record is left without
\* static context (every record delivered is in the resolved module list).
C7_NoPendingAfterAdd == modules_without_static_context = << >>

\* the items of a document as add stores them, solvable ids left aside
StoredAs(items, static) ==
    [ i \in 1..Len(items) |-> NewModuleItem(items[i], static) ]

WithoutIds(mods) == [ i \in 1..Len(mods) |-> [mods[i] EXCEPT !.id = 0] ]

\* C7 amended: add puts the static-context records of the document into the
\* resolved list and leaves its dynamic-context records in the list of records
\* without static context; add_modules_without_static_context empties that
\* list, giving each of its records a context label and a solvable and
\* appending it to the resolved list.
C7_PendingUntilResolved ==
    /\ [][ (Len(modules') + Len(modules_without_static_context')
              > Len(modules) + Len(modules_without_static_context)) =>
              \E a \in AddInputs :
                  /\ ParseDocument(a[1]).ok
                  /\ WithoutIds(modules') =
                        WithoutIds(modules) \o StoredAs(ParseDocument(a[1]).static, TRUE)
                  /\ modules_without_static_context' =
                        modules_without_static_context \o StoredAs(ParseDocument(a[1]).dynamic, FALSE)
         ]_vars
    /\ [][ (Len(modules_without_static_context') < Len(modules_without_static_context)) =>
              /\ modules_without_static_context' = << >>
              /\ Len(modules') = Len(modules) + Len(modules_without_static_context)
              /\ SubSeq(modules', 1, Len(modules)) = modules
              /\ \A i \in 1..Len(modules_without_static_context) :
                    LET m == modules'[Len(modules) + i]
                        p == modules_without_static_context[i]
                    IN /\ [m EXCEPT !.computed_static_context = "", !.id = 0] = p
                       /\ m.computed_static_context # ""
                       /\ m.id = nsolvables + i - 1
         ]_vars
    /\ [](/\ \A i \in 1..Len(modules) :
                /\ modules[i].id >= 2
                /\ modules[i].static \/ modules[i].computed_static_context # ""
          /\ \A i \in 1..Len(modules_without_static_context) :
                /\ ~modules_without_static_context[i].static
                /\ modules_without_static_context[i].computed_static_context = ""
                /\ modules_without_static_context[i].id = 0)

C7_Witness ==
    /\ modules_without_static_context = << >>
    /\ \E i \in 1..Len(modules) :
          ~modules[i].static /\ modules[i].computed_static_context = "NoRequires"

\* C8: for every document d and repository id r, add(d, r) called twice leaves
\* the module records, the pending records and the repository table as add(d, r)
\* called once does.
C8_AddIdempotent ==
    \A a \in AddInputs :
        ParseDocument(a[1]).ok =>
            LET once == RegistryAfterAdd(Registry, a[1], a[2])
                twice == RegistryAfterAdd(once, a[1], a[2])
            IN /\ twice.modules = once.modules
               /\ twice.pending = once.pending
               /\ twice.repositories = once.repositories

\* C9: when the parser rejects the document add raises ModuleResolveError
\* naming the repository id and changes nothing: the module records, the pending
\* records, the repository table, the Active Module Map and the
\* resolution-has-run flag stay as they were and the sack stays usable.
C9_RejectedAddChangesNothing ==
    [][ (last_error'.kind # "none") =>
            /\ last_error'.kind = "ModuleResolveError"
            /\ \E a \in AddInputs : ~ParseDocument(a[1]).ok /\ last_error'.repo = a[2]
            /\ pc = "idle" /\ pc' = "idle"
            /\ UNCHANGED << modules, modules_without_static_context, repositories, nsolvables,
                            metadata_defaults, active_modules, active_modules_resolved,
                            excludes, considered, system_state >> ]_vars

C9_Witness ==
    /\ last_error = [kind |-> "ModuleResolveError", repo |-> "r2"]
    /\ modules # << >>
    /\ active_modules # {}
    /\ active_modules_resolved

\* the packages whose NEVRA is an artifact of an active module
ActiveArtifactPackages ==
    { p \in Packages :
        \E i \in 1..Len(modules) :
            modules[i].id \in active_modules /\ p.nevra \in get_artifacts(modules[i]) }

\* C10: a package whose NEVRA is an artifact of at least one active module is
\* in none of the three exclude queries module_filtering publishes, also when
\* it is an artifact of an inactive module, has the name of an active artifact
\* or provides such a name.
C10_IncludeWins ==
    module_excludes.queries =>
        \A p \in ActiveArtifactPackages :
            p \notin (module_excludes.by_nevra \cup module_excludes.by_provides
                        \cup module_excludes.by_names)

C10_Witness ==
    /\ module_excludes.queries
    /\ \E p \in ActiveArtifactPackages :
          /\ \E i \in 1..Len(modules) :
                modules[i].id \notin active_modules /\ p.nevra \in get_artifacts(modules[i])
          /\ p \notin module_excludes.by_nevra
    /\ \E p \in ActiveArtifactPackages, q \in module_excludes.by_names : p.name = q.name
    /\ module_excludes.by_nevra # {}
    /\ module_excludes.by_provides # {}

\* the ids of the records of module name n with stream s
RecordsOf(n, s) ==
    { modules[i].id : i \in { j \in 1..Len(modules) :
                                modules[j].name = n /\ modules[j].stream = s } }

\* the packages one of the three exclude queries of module_filtering holds,
\* for the whole package sack and the Active Module Map as it is
PublishedExcludes ==
    LET ex == module_filtering(Packages, modules, active_modules)
    IN ex.by_nevra \cup ex.by_provides \cup ex.by_names

\* the packages of the repositories modular filtering applies to whose NEVRA
\* is an artifact of a record of n with stream s
ArtifactPackages(n, s) ==
    { p \in TargetPackages(Packages) :
        \E i \in 1..Len(modules) :
            /\ modules[i].name = n /\ modules[i].stream = s
            /\ p.nevra \in get_artifacts(modules[i]) }

\* module name n is Enabled with a stream the registry holds, the default
\* stream of n is another stream the registry holds
EnabledAgainstDefault(n) ==
    /\ system_state[n].found
    /\ system_state[n].state = "Enabled"
    /\ metadata_defaults[n] # system_state[n].stream
    /\ RecordsOf(n, system_state[n].stream) # {}
    /\ RecordsOf(n, metadata_defaults[n]) # {}

\* C11: when a module name is Enabled with stream S and its default stream is
\* another stream D, a resolution makes the records name:S active and leaves
\* the records name:D inactive, and the excludes of the Modular Filter hold the
\* artifacts of name:D and none of the artifacts of name:S.
C11_EnabledBeatsDefault ==
    \A n \in ModuleNames :
        (pc = "solved" /\ EnabledAgainstDefault(n)) =>
            /\ RecordsOf(n, system_state[n].stream) \subseteq active_modules
            /\ RecordsOf(n, metadata_defaults[n]) \cap active_modules = {}
            /\ ArtifactPackages(n, system_state[n].stream) \cap PublishedExcludes = {}
            /\ (ArtifactPackages(n, metadata_defaults[n])
                  \ ArtifactPackages(n, system_state[n].stream)) \subseteq PublishedExcludes

\* C12: a record whose module name is Disabled when a resolution is made is
\* not among the solvables the solver considers in any attempt of that
\* resolution, and it is not in the Active Module Map the resolution leaves.
C12_DisabledNeverActive ==
    \A i \in 1..Len(modules) :
        (system_state[modules[i].name].found
            /\ system_state[modules[i].name].state = "Disabled") =>
            /\ pc \in { "strict", "best", "weakpref", "weak" } =>
                  modules[i].id \notin ConsideredIds(considered, modules)
            /\ pc = "solved" => modules[i].id \notin active_modules

CanonicalText ==
    [s \in ModuleStates |->
        CASE s = "AVAILABLE" -> "Available" [] s = "ENABLED" -> "Enabled" [] OTHER -> "Disabled"]

\* C13: the text of a state is "Available", "Enabled" or "Disabled";
\* module_state_from_string gives back the state whose text it is handed, and
\* for every other string, whatever its letter case, empty or not, it raises
\* InvalidModuleState and returns no state.
C13_StateTextRoundTrip ==
    /\ to_string_call.called => to_string_call.text = CanonicalText[to_string_call.state]
    /\ (to_string_call.called /\ from_string_call.called
          /\ from_string_call.text = to_string_call.text) =>
          /\ from_string_call.raised = "none"
          /\ from_string_call.state = to_string_call.state
    /\ (from_string_call.called
          /\ from_string_call.text \notin { CanonicalText[s] : s \in ModuleStates }) =>
          /\ from_string_call.raised = "InvalidModuleState"
          /\ from_string_call.state = "none"
    /\ \A s \in ModuleStates :
          module_state_from_string(module_state_to_string(s)).state = s

C13_Witness ==
    /\ to_string_call.called
    /\ to_string_call.state = "DISABLED"
    /\ from_string_call.called
    /\ from_string_call.text = to_string_call.text
    /\ from_string_call.state = "DISABLED"

\* what the Weak-preferred goal of the running module_solve listed as conflicting
WeakPreferredConflicting ==
    IF Len(attempts) >= 3 THEN attempts[3].conflicting ELSE {}

\* C14: every item the Weak-preferred goal lists as conflicting is in the
\* Exclude Set before the Weak goal is resolved, and when the severity returned
\* is ERROR none of these items is a key of the Active Module Map.
C14_ConflictingNotActive ==
    /\ pc = "weak" => WeakPreferredConflicting \subseteq excludes.bits
    /\ (pc = "solved" /\ result.severity = "ERROR") =>
          WeakPreferredConflicting \cap active_modules = {}

\* the ids of all solvables of the pool
AllSolvables == 0 .. (nsolvables - 1)

\* C15: when a goal is about to be resolved, in every resolution, the
\* Considered Set holds all solvables but those of the current Exclude Set.
C15_ConsideredIsAllMinusExcludes ==
    pc \in { "strict", "best", "weakpref", "weak" } =>
        /\ considered.alloc
        /\ considered.bits \cap AllSolvables = AllSolvables \ excludes.bits

\* the persisted state of a module name, a name without one counting as Available
PersistedState(n) == IF system_state[n].found THEN system_state[n].state ELSE "Available"

\* the per-module policy: a record is a candidate when its module name is
\* Enabled with the record's stream, or, the name not being Disabled, when the
\* record's stream is the default stream of the name
IsCandidate(m) ==
    /\ PersistedState(m.name) # "Disabled"
    /\ \/ PersistedState(m.name) = "Enabled" /\ system_state[m.name].stream = m.stream
       \/ metadata_defaults[m.name] = m.stream

RECURSIVE IdsOf(_)
IdsOf(mods) == IF mods = << >> THEN << >> ELSE << Head(mods).id >> \o IdsOf(Tail(mods))

\* C16: resolve_active_module_items hands module_solve exactly the records the
\* per-module policy makes candidates, in registry order, and puts exactly the
\* records of Disabled module names into the Exclude Set; a module name without
\* persisted state counts as Available, whatever enabled stream was read for a
\* module before it.
C16_SelectorPolicy ==
    [][ (pc = "idle" /\ pc' = "module_solve") =>
            /\ module_items_to_solve' = IdsOf(SelectSeq(modules', IsCandidate))
            /\ excludes'.alloc
            /\ excludes'.bits =
                  { modules'[i].id : i \in { j \in 1..Len(modules') :
                                               PersistedState(modules'[j].name) = "Disabled" } }
      ]_vars

\* a record of a name without persisted state follows a record of an Enabled
\* name whose enabled stream is the record's stream, and is no candidate
C16_Witness ==
    /\ pc = "module_solve"
    /\ module_items_to_solve # << >>
    /\ \E i, j \in 1..Len(modules) :
          /\ i < j
          /\ PersistedState(modules[i].name) = "Enabled"
          /\ ~system_state[modules[j].name].found
          /\ modules[j].stream = system_state[modules[i].name].stream
          /\ modules[j].id \notin SeqToSet(module_items_to_solve)

\* the static-context records of mods with the name:stream and the dependency
\* signature of m
StaticGroup(mods, m) ==
    { mods[i] : i \in { j \in 1..Len(mods) :
                          /\ mods[j].static
                          /\ get_name_stream(mods[j]) = get_name_stream(m)
                          /\ mods[j].deps = m.deps } }

\* C17: a dynamic-context record whose name:stream and dependency signature
\* are those of a static-context record of the registry gets the context label
\* of that record when add_modules_without_static_context labels it, so both
\* have the same name:stream:context.
C17_StaticGroupLabel ==
    [][ (Len(modules_without_static_context') < Len(modules_without_static_context)) =>
            \A i \in 1..Len(modules_without_static_context) :
                LET m == modules'[Len(modules) + i] IN
                \A x \in StaticGroup(modules, modules_without_static_context[i]) :
                    /\ m.computed_static_context = x.context
                    /\ get_name_stream_staticcontext(m) = get_name_stream_staticcontext(x)
      ]_vars

\* the labelled dynamic-context records of the registry that have no static
\* group
Unmatched ==
    { m \in SeqToSet(modules) : ~m.static /\ StaticGroup(modules, m) = {} }

\* C18: of the dynamic-context records without a static group, two with the
\* same name:stream and an empty signature both have the label "NoRequires",
\* two with the same name:stream and the same non-empty signature have the same
\* label, and two with the same name:stream and different signatures have
\* different labels.
C18_SynthesizedLabels ==
    \A a, b \in Unmatched :
        get_name_stream(a) = get_name_stream(b) =>
            /\ (a.deps = "" /\ b.deps = "") =>
                  (a.computed_static_context = "NoRequires"
                     /\ b.computed_static_context = "NoRequires")
            /\ (a.deps = b.deps) => a.computed_static_context = b.computed_static_context
            /\ (a.deps # b.deps) => a.computed_static_context # b.computed_static_context

\* the constraint of one goal for candidate m: strict = 1 is mandatory,
\* best = 1 is prefer-latest
ExpectedJob(tier, m) ==
    LET enabled == PersistedState(m.name) = "Enabled"
        mandatory == \/ tier = "strict"
                     \/ tier \in {"best", "weakpref"} /\ enabled
        latest == tier \in {"strict", "best"}
    IN [reldep |-> "module(" \o m.name \o ":" \o m.stream \o ")",
        strict |-> IF mandatory THEN 1 ELSE 0,
        best |-> IF latest THEN 1 ELSE 0]

\* C19: each goal holds one require-module(name:stream) constraint per
\* candidate: mandatory and prefer-latest in Strict; optional without
\* freshness preference in Weak; in Best mandatory if the persisted state of the
\* candidate's module name is Enabled, else optional, prefer-latest in both
\* cases; in Weak-preferred mandatory if Enabled, else optional, without
\* freshness preference; a missing state counts as not Enabled.
C19_GoalWeights ==
    \A i \in 1..Len(attempts) :
        /\ attempts[i].jobs =
              { ExpectedJob(attempts[i].tier, ModuleById(id)) :
                  id \in SeqToSet(module_items_to_solve) }
        /\ { j.reldep : j \in attempts[i].jobs } = { j.reldep : j \in attempts[1].jobs }

C19_Witness ==
    /\ Len(attempts) = 4
    /\ \E a, b \in SeqToSet(module_items_to_solve) :
          /\ PersistedState(ModuleById(a).name) = "Enabled"
          /\ ~system_state[ModuleById(b).name].found
    /\ \E j \in attempts[2].jobs : j.strict = 0 /\ j.best = 1
    /\ \E j \in attempts[3].jobs : j.strict = 1 /\ j.best = 0

\* C20: a call of recompute_considered_in_pool that follows an earlier one
\* (the dirty flag is clear: considered_uptodate is set) recomputes nothing: it
\* changes neither the Considered Set nor the flag; applied twice in a row to
\* any state, the second application returns the map of the first.
C20_RecomputeOnce ==
    /\ [][ (pc = "module_solve" /\ pc' = "strict" /\ considered_uptodate) =>
              UNCHANGED << considered, considered_uptodate >> ]_vars
    /\ [][ (pc = "module_solve" /\ pc' = "strict") =>
              /\ considered_uptodate'
              /\ recompute_considered_in_pool(considered', considered_uptodate',
                                              excludes', nsolvables') = considered' ]_vars

\* the second module_solve of a sack recomputes nothing: the Exclude Set is as
\* it was when the Considered Set was computed
C20_Witness ==
    /\ pc = "strict"
    /\ active_at_entry # {}
    /\ considered_uptodate
    /\ excludes.bits = {}
    /\ considered.bits = 0 .. (considered.size - 1)

DisabledIds(mods) ==
    { mods[i].id : i \in { j \in 1..Len(mods) : PersistedState(mods[j].name) = "Disabled" } }

\* C22 as stated: an item added to the Exclude Set because the Weak-preferred
\* goal listed it as conflicting is in the Exclude Set in every later state,
\* also during and after every later resolve_active_module_items.
C22_PermanentlyExcluded ==
    [][ \A id \in excluded_conflicting : id \in excludes'.bits ]_vars

\* C22 amended: the items the Weak-preferred goal lists as conflicting are in
\* the Exclude Set from line 464 on, through the Weak goal and after
\* module_solve returned, and nothing leaves the Exclude Set until the next
\* resolve_active_module_items; that call starts with a new Exclude Set, which
\* holds the records of the Disabled module names and nothing else.
C22_ExcludedUntilNextResolution ==
    /\ [](excluded_conflicting \subseteq excludes.bits)
    /\ [](Len(attempts) >= 3 => attempts[3].conflicting \subseteq excludes.bits)
    /\ [][ ~(pc = "idle" /\ pc' = "module_solve") =>
              excludes.bits \subseteq excludes'.bits ]_vars
    /\ [][ (pc = "idle" /\ pc' = "module_solve") =>
              excludes'.bits = DisabledIds(modules') ]_vars

\* module_solve returned with severity ERROR after the Weak-preferred goal
\* listed conflicts: the items are still in the Exclude Set
C22_Witness ==
    /\ pc = "idle"
    /\ active_modules_resolved
    /\ excluded_conflicting # {}
    /\ excluded_conflicting \subseteq excludes.bits
    /\ active_modules # {}

====
